---------------------------- MODULE Spec2Model ----------------------------
(***************************************************************************)
(* A model of hypernetx/algorithms/homology_mod2.py: the elementary mod-2  *)
(* matrix operations, the pivot search, the Smith-normal-form and reduced  *)
(* row-echelon solvers, the image-group enumeration and the homology-basis *)
(* extraction.                                                             *)
(*                                                                         *)
(* A numpy array is modelled as a record [rows, cols, a] whose field a     *)
(* maps every index pair <<i, j>> (0-based, as in the source) to an entry. *)
(* A call that receives an array is modelled by a record [out, arg, fresh]:*)
(* out is the returned array, arg is the content of the argument's buffer  *)
(* after the call, and fresh says that out lives in a buffer of its own.   *)
(***************************************************************************)
EXTENDS Integers, Sequences, FiniteSets, TLC

VARIABLES
    M0,     \* the content of the caller's matrix when the call was made
    sn,     \* the running call: its name, position and local variables
    ret,    \* the value handed back to the caller
    hb      \* a running homology computation: its arguments, position and locals

vars == <<M0, sn, ret, hb>>

(***************************************************************************)
(* Bounds of the model.                                                    *)
(***************************************************************************)
MaxDim == 4      \* a matrix has at most MaxDim rows and MaxDim columns
MaxCells == 9    \* and at most MaxCells entries
HomDim == 4      \* bd[k] is a x b and bd[k+1] is b x c with a, b, c <= HomDim
HomCells == 10   \* and a*b + b*c <= HomCells
MaxVertices == 3 \* a hypergraph has at most MaxVertices vertices
MaxEdges == 3    \* and at most MaxEdges hyperedges

(***************************************************************************)
(* Arrays.                                                                 *)
(***************************************************************************)
Idx(m, n) == (0 .. m - 1) \X (0 .. n - 1)

Mat(m, n, a) == [rows |-> m, cols |-> n, a |-> a]

At(X, i, j) == X.a[<<i, j>>]

Row(X, i) == [j \in 0 .. X.cols - 1 |-> At(X, i, j)]

\* N[i] = row
SetRow(X, i, row) ==
    Mat(X.rows, X.cols, [p \in Idx(X.rows, X.cols) |-> IF p[1] = i THEN row[p[2]] ELSE X.a[p]])

\* np.eye(n, dtype=int)
eye(n) == Mat(n, n, [p \in Idx(n, n) |-> IF p[1] = p[2] THEN 1 ELSE 0])

\* M.transpose(): a view of the same buffer with the two axes exchanged
transpose(X) == Mat(X.cols, X.rows, [p \in Idx(X.cols, X.rows) |-> At(X, p[2], p[1])])

\* M[:, c1:c2] and M[r1:r2, :]
ColSlice(X, c1, c2) ==
    Mat(X.rows, c2 - c1, [p \in Idx(X.rows, c2 - c1) |-> At(X, p[1], c1 + p[2])])

RowSlice(X, r1, r2) ==
    Mat(r2 - r1, X.cols, [p \in Idx(r2 - r1, X.cols) |-> At(X, r1 + p[1], p[2])])

RECURSIVE SumTo(_, _)
SumTo(f, n) == IF n < 0 THEN 0 ELSE f[n] + SumTo(f, n - 1)

\* np.sum(M)
npsum(X) ==
    LET rowsum == [i \in 0 .. X.rows - 1 |-> SumTo(Row(X, i), X.cols - 1)]
    IN  SumTo(rowsum, X.rows - 1)

\* every 0/1 matrix of shape m x n
Matrices(m, n) == {Mat(m, n, f) : f \in [Idx(m, n) -> {0, 1}]}

(***************************************************************************)
(* copy.copy and copy.deepcopy of an array: a new buffer, equal content.   *)
(***************************************************************************)
copy_copy(X) == [val |-> X, fresh |-> TRUE]

deepcopy_alias(X) == [val |-> X, fresh |-> FALSE]

deepcopy(X) == [val |-> X, fresh |-> TRUE]

(***************************************************************************)
(* Elementary operations.                                                  *)
(***************************************************************************)
\* N = copy.deepcopy(M); N[i] = M[j]; N[j] = M[i]; return N
_rswap(i, j, X) ==
    LET N0 == deepcopy(X)
        N1 == SetRow(N0.val, i, Row(X, j))
        X1 == IF N0.fresh THEN X ELSE N1
        N2 == SetRow(N1, j, Row(X1, i))
        X2 == IF N0.fresh THEN X1 ELSE N2
    IN  [out |-> N2, arg |-> X2, fresh |-> N0.fresh]

\* N = _rswap(i, j, M.transpose()); return N.transpose()
_cswap(i, j, X) ==
    LET r == _rswap(i, j, transpose(X))
    IN  [out |-> transpose(r.out), arg |-> transpose(r.arg), fresh |-> r.fresh]

\* swap_rows(i, j, *args): one _rswap per array of args
swap_rows(i, j, args) == [k \in 1 .. Len(args) |-> _rswap(i, j, args[k])]

swap_columns(i, j, args) == [k \in 1 .. Len(args) |-> _cswap(i, j, args[k])]

\* N = copy.deepcopy(M); N[i] = np.mod(ri*N[i] + rj*N[j], [mod]); return N
add_to_row(X, i, j, ri, rj, mod) ==
    LET N0 == deepcopy(X)
        N1 == SetRow(N0.val, i,
                     [c \in 0 .. X.cols - 1 |->
                         (ri * At(N0.val, i, c) + rj * At(N0.val, j, c)) % mod])
    IN  [out |-> N1, arg |-> IF N0.fresh THEN X ELSE N1, fresh |-> N0.fresh]

\* N = M.transpose(); return add_to_row(N, i, j, ci, cj, mod=mod).transpose()
add_to_column(X, i, j, ci, cj, mod) ==
    LET r == add_to_row(transpose(X), i, j, ci, cj, mod)
    IN  [out |-> transpose(r.out), arg |-> transpose(r.arg), fresh |-> r.fresh]

RECURSIVE DotTo(_, _, _, _, _)
DotTo(X, Y, i, j, k) ==
    IF k < 0 THEN 0 ELSE At(X, i, k) * At(Y, k, j) + DotTo(X, Y, i, j, k - 1)

\* np.mod(np.matmul(M, N), mod)
modmult(X, Y, mod) ==
    Mat(X.rows, Y.cols,
        [p \in Idx(X.rows, Y.cols) |-> DotTo(X, Y, p[1], p[2], X.cols - 1) % mod])

\* P = arr[0]; for i in 1..: P = modmult(P, arr[i])
RECURSIVE matmulreduce_from(_, _, _, _)
matmulreduce_from(P, arr, i, mod) ==
    IF i > Len(arr) THEN P ELSE matmulreduce_from(modmult(P, arr[i], mod), arr, i + 1, mod)

matmulreduce(arr, mod) == matmulreduce_from(arr[1], arr, 2, mod)

\* the convenience wrappers of the solvers
_sr(i, j, X, L) == swap_rows(i, j, <<X, L>>)

_sc(i, j, X, R) == swap_columns(i, j, <<X, R>>)

_ar(i, j, X, L, mod) == <<add_to_row(X, i, j, 1, 1, mod), add_to_row(L, i, j, 1, 1, mod)>>

_ac(i, j, X, R, mod) == <<add_to_column(X, i, j, 1, 1, mod), add_to_column(R, i, j, 1, 1, mod)>>

(***************************************************************************)
(* Pivot search.  An optional integer argument is [isNone, v]; the result  *)
(* is [isNone, r, c].                                                      *)
(***************************************************************************)
NoneArg == [isNone |-> TRUE, v |-> 0]
Some(x) == [isNone |-> FALSE, v |-> x]

NoPivot == [isNone |-> TRUE, r |-> 0, c |-> 0]

\* Python's "not s2" for s2 an int or None
not_s2(s2) == s2.isNone \/ s2.v = 0

\* for c in range(s2, n): for r in range(s1, m): if M[r, c] != 0: return (r, c)
RECURSIVE pivot_scan(_, _, _, _)
pivot_scan(X, s1, r, c) ==
    IF c >= X.cols THEN NoPivot
    ELSE IF r >= X.rows THEN pivot_scan(X, s1, s1, c + 1)
    ELSE IF At(X, r, c) # 0 THEN [isNone |-> FALSE, r |-> r, c |-> c]
    ELSE pivot_scan(X, s1, r + 1, c)

_get_next_pivot(X, s1, s2) ==
    LET start == IF not_s2(s2) THEN s1 ELSE s2.v
    IN  pivot_scan(X, s1, s1, start)

(***************************************************************************)
(* The solvers' local variables, one record for both solvers:              *)
(*   M     the caller's matrix (the content of its buffer now)             *)
(*   SisM  whether the name S is bound to the caller's buffer              *)
(*   s     smith: the loop variable; rref: the position of range(dimR)     *)
(***************************************************************************)
Min(x, y) == IF x <= y THEN x ELSE y

\* the elements of a finite set of integers in ascending order
RECURSIVE Ascending(_)
Ascending(T) ==
    IF T = {} THEN <<>>
    ELSE LET lo == CHOOSE x \in T : \A y \in T : x <= y
         IN  <<lo>> \o Ascending(T \ {lo})

\* S = copy.copy(M) and the identity matrices of lines 418-429 / 506-514
Locals(fn, X) ==
    LET c == copy_copy(X)
    IN  [fn |-> fn, pc |-> "start", M |-> X, SisM |-> ~c.fresh, S |-> c.val,
         L |-> eye(X.rows), R |-> eye(X.cols), Linv |-> eye(X.rows),
         s |-> 0, s1 |-> 0, s2 |-> 0, rdx |-> 0, cdx |-> 0, idxs |-> <<>>]

\* the name S is bound to the result r of a call made on S
BindS(st, r) ==
    [st EXCEPT !.S = r.out,
               !.M = IF st.SisM THEN r.arg ELSE @,
               !.SisM = st.SisM /\ ~r.fresh]

(***************************************************************************)
(* smith_normal_form_mod2, one operator per step of its loop.              *)
(***************************************************************************)
SmithInit(X) == [Locals("smith", X) EXCEPT !.pc = "pivot"]

\* for s in range(min(dimL, dimR)): pivot = _get_next_pivot(S, s); if not pivot: break
smith_pivot(st) ==
    IF st.s >= Min(st.S.rows, st.S.cols) THEN [st EXCEPT !.pc = "done"]
    ELSE LET pivot == _get_next_pivot(st.S, st.s, NoneArg)
         IN  IF pivot.isNone THEN [st EXCEPT !.pc = "done"]
             ELSE [st EXCEPT !.rdx = pivot.r, !.cdx = pivot.c, !.pc = "swap_rows"]

\* if rdx > s: S, L = _sr(s, rdx, S, L); Linv = swap_columns(s, rdx, Linv)[0]
smith_swap_rows(st) ==
    IF st.rdx > st.s
    THEN LET r == _sr(st.s, st.rdx, st.S, st.L)
             li == swap_columns(st.s, st.rdx, <<st.Linv>>)[1]
         IN  [BindS(st, r[1]) EXCEPT !.L = r[2].out, !.Linv = li.out, !.pc = "swap_cols"]
    ELSE [st EXCEPT !.pc = "swap_cols"]

\* if cdx > s: S, R = _sc(s, cdx, S, R)
smith_swap_cols(st) ==
    IF st.cdx > st.s
    THEN LET r == _sc(st.s, st.cdx, st.S, st.R)
         IN  [BindS(st, r[1]) EXCEPT !.R = r[2].out, !.pc = "row_indices"]
    ELSE [st EXCEPT !.pc = "row_indices"]

\* row_indices = [idx for idx in range(s+1, dimL) if S[idx][s] == 1]
smith_row_indices(st) ==
    [st EXCEPT !.idxs = Ascending({idx \in st.s + 1 .. st.S.rows - 1 : At(st.S, idx, st.s) = 1}),
               !.pc = "add_row"]

\* smith_add_row with the column addition on Linv made the other way round
smith_add_row_transposed(st) ==
    LET rdx == Head(st.idxs)
        r == _ar(rdx, st.s, st.S, st.L, 2)
        li == add_to_column(st.Linv, rdx, st.s, 1, 1, 2)
    IN  [BindS(st, r[1]) EXCEPT !.L = r[2].out, !.Linv = li.out,
                                !.rdx = rdx, !.idxs = Tail(st.idxs)]

\* for rdx in row_indices: S, L = _ar(rdx, s, S, L); Linv = add_to_column(Linv, s, rdx)
smith_add_row(st) ==
    LET rdx == Head(st.idxs)
        r == _ar(rdx, st.s, st.S, st.L, 2)
        li == add_to_column(st.Linv, st.s, rdx, 1, 1, 2)
    IN  [BindS(st, r[1]) EXCEPT !.L = r[2].out, !.Linv = li.out,
                                !.rdx = rdx, !.idxs = Tail(st.idxs)]

\* smith_column_indices with the range starting one column too far
smith_column_indices_skip(st) ==
    [st EXCEPT !.idxs = Ascending({jdx \in st.s + 2 .. st.S.cols - 1 : At(st.S, st.s, jdx) = 1}),
               !.pc = "add_col"]

\* column_indices = [jdx for jdx in range(s+1, dimR) if S[s][jdx] == 1]
smith_column_indices(st) ==
    [st EXCEPT !.idxs = Ascending({jdx \in st.s + 1 .. st.S.cols - 1 : At(st.S, st.s, jdx) = 1}),
               !.pc = "add_col"]

\* for jdx, cdx in enumerate(column_indices): S, R = _ac(cdx, s, S, R)
smith_add_col(st) ==
    LET cdx == Head(st.idxs)
        r == _ac(cdx, st.s, st.S, st.R, 2)
    IN  [BindS(st, r[1]) EXCEPT !.R = r[2].out, !.cdx = cdx, !.idxs = Tail(st.idxs)]

\* the end of the loop body: the next s
smith_next_s(st) == [st EXCEPT !.s = st.s + 1, !.pc = "pivot"]

SmithStep(st) ==
    CASE st.pc = "pivot" -> smith_pivot(st)
      [] st.pc = "swap_rows" -> smith_swap_rows(st)
      [] st.pc = "swap_cols" -> smith_swap_cols(st)
      [] st.pc = "row_indices" -> smith_row_indices(st)
      [] st.pc = "add_row" /\ st.idxs # <<>> -> smith_add_row(st)
      [] st.pc = "add_row" /\ st.idxs = <<>> -> smith_column_indices(st)
      [] st.pc = "add_col" /\ st.idxs # <<>> -> smith_add_col(st)
      [] st.pc = "add_col" /\ st.idxs = <<>> -> smith_next_s(st)

RECURSIVE SmithRun(_)
SmithRun(st) == IF st.pc = "done" THEN st ELSE SmithRun(SmithStep(st))

\* return L, R, S, Linv
smith_normal_form_mod2(X) ==
    LET st == SmithRun(SmithInit(X))
    IN  [L |-> st.L, R |-> st.R, S |-> st.S, Linv |-> st.Linv]

(***************************************************************************)
(* reduced_row_echelon_form_mod2, one operator per step of its loops.      *)
(***************************************************************************)
RrefInit(X) == [Locals("rref", X) EXCEPT !.pc = "outer", !.R = eye(0)]

\* for s2 in range(dimR): the next value of the range, and the start of the
\* inner range(s2, dimL)
rref_outer(st) ==
    IF st.s >= st.S.cols THEN [st EXCEPT !.pc = "done"]
    ELSE [st EXCEPT !.s2 = st.s, !.s1 = st.s, !.s = st.s + 1, !.pc = "inner"]

\* for s1 in range(s2, dimL): pivot = _get_next_pivot(S, s1, s2);
\* if pivot: rdx, cdx = pivot; s2 = cdx; break      else: continue
rref_inner(st) ==
    IF st.s1 >= st.S.rows THEN [st EXCEPT !.pc = "outer"]
    ELSE LET pivot == _get_next_pivot(st.S, st.s1, Some(st.s2))
         IN  IF pivot.isNone THEN [st EXCEPT !.s1 = st.s1 + 1]
             ELSE [st EXCEPT !.rdx = pivot.r, !.cdx = pivot.c, !.s2 = pivot.c,
                             !.pc = "swap_rows"]

\* rref_swap_rows without the matching column swap of Linv
rref_swap_rows_keep_Linv(st) ==
    IF st.rdx > st.s1
    THEN LET r == _sr(st.s1, st.rdx, st.S, st.L)
         IN  [BindS(st, r[1]) EXCEPT !.L = r[2].out, !.pc = "row_indices"]
    ELSE [st EXCEPT !.pc = "row_indices"]

\* if rdx > s1: S, L = _sr(s1, rdx, S, L); Linv = swap_columns(rdx, s1, Linv)[0]
rref_swap_rows(st) ==
    IF st.rdx > st.s1
    THEN LET r == _sr(st.s1, st.rdx, st.S, st.L)
             li == swap_columns(st.rdx, st.s1, <<st.Linv>>)[1]
         IN  [BindS(st, r[1]) EXCEPT !.L = r[2].out, !.Linv = li.out, !.pc = "row_indices"]
    ELSE [st EXCEPT !.pc = "row_indices"]

\* rref_row_indices that eliminates below the pivot only, as the Smith solver does
rref_row_indices_below(st) ==
    [st EXCEPT !.idxs = Ascending({idx \in st.s1 + 1 .. st.S.rows - 1 :
                                      At(st.S, idx, st.cdx) = 1}),
               !.pc = "add_row"]

\* row_indices = [idx for idx in range(dimL) if idx != s1 and S[idx][cdx] == 1]
rref_row_indices(st) ==
    [st EXCEPT !.idxs = Ascending({idx \in 0 .. st.S.rows - 1 :
                                      idx # st.s1 /\ At(st.S, idx, st.cdx) = 1}),
               !.pc = "add_row"]

\* for idx in row_indices: S, L = _ar(idx, s1, S, L); Linv = add_to_column(Linv, s1, idx)
rref_add_row(st) ==
    LET idx == Head(st.idxs)
        r == _ar(idx, st.s1, st.S, st.L, 2)
        li == add_to_column(st.Linv, st.s1, idx, 1, 1, 2)
    IN  [BindS(st, r[1]) EXCEPT !.L = r[2].out, !.Linv = li.out, !.idxs = Tail(st.idxs)]

\* the end of the outer loop body
rref_next(st) == [st EXCEPT !.pc = "outer"]

RrefStep(st) ==
    CASE st.pc = "outer" -> rref_outer(st)
      [] st.pc = "inner" -> rref_inner(st)
      [] st.pc = "swap_rows" -> rref_swap_rows(st)
      [] st.pc = "row_indices" -> rref_row_indices(st)
      [] st.pc = "add_row" /\ st.idxs # <<>> -> rref_add_row(st)
      [] st.pc = "add_row" /\ st.idxs = <<>> -> rref_next(st)

RECURSIVE RrefRun(_)
RrefRun(st) == IF st.pc = "done" THEN st ELSE RrefRun(RrefStep(st))

\* return L, S, Linv
reduced_row_echelon_form_mod2(X) ==
    LET st == RrefRun(RrefInit(X))
    IN  [L |-> st.L, S |-> st.S, Linv |-> st.Linv]

(***************************************************************************)
(* Vectors (one row of an array, indexed from 0) and lists of vectors.     *)
(***************************************************************************)
Weight(v) == SumTo(v, Cardinality(DOMAIN v) - 1)

\* S = arr[0]; for i in range(1, len(arr)): S = np.mod(S + arr[i], [mod])
RECURSIVE matsumreduce_from(_, _, _, _)
matsumreduce_from(S, arr, i, mod) ==
    IF i > Len(arr) THEN S
    ELSE matsumreduce_from([c \in DOMAIN S |-> (S[c] + arr[i][c]) % mod], arr, i + 1, mod)

matsumreduce(arr, mod) == matsumreduce_from(arr[1], arr, 2, mod)

MaxWeight(list) ==
    IF list = <<>> THEN 0
    ELSE LET ws == {Weight(list[i]) : i \in 1 .. Len(list)}
         IN  CHOOSE w \in ws : \A x \in ws : x <= w

\* sorted(list, key=lambda g: np.sum(g)): a stable sort, so vectors of one
\* weight keep their order
RECURSIVE sorted_by_sum_from(_, _)
sorted_by_sum_from(list, w) ==
    IF w > MaxWeight(list) THEN <<>>
    ELSE SelectSeq(list, LAMBDA g : Weight(g) = w) \o sorted_by_sum_from(list, w + 1)

sorted_by_sum(list) == sorted_by_sum_from(list, 0)

(***************************************************************************)
(* _coeff and image_group.                                                 *)
(***************************************************************************)
\* addabit that forgets the second append
addabit_zero_only(arr) == [i \in 1 .. Len(arr) |-> Append(arr[i], 0)]

\* for a in arr: temp.append(np.append(a, 0)); temp.append(np.append(a, 1))
addabit(arr) ==
    [i \in 1 .. 2 * Len(arr) |-> Append(arr[(i + 1) \div 2], IF i % 2 = 1 THEN 0 ELSE 1)]

\* arr = [np.array([0]), np.array([1])]; for idx in range(1, n): arr = addabit(arr)
RECURSIVE coeff_from(_, _, _)
coeff_from(arr, idx, n) == IF idx >= n THEN arr ELSE coeff_from(addabit(arr), idx + 1, n)

_coeff(n) == coeff_from(<<(<<0>>), (<<1>>)>>, 1, n)

NoneList == [isNone |-> TRUE, v |-> <<>>]

\* if np.sum(im2) == 0: return None; else the sorted combinations of the
\* rows of im2.transpose()
image_group(im2) ==
    IF npsum(im2) = 0 THEN NoneList
    ELSE LET image_basis == transpose(im2)
             coeffs == _coeff(image_basis.rows)
             group == [n \in 1 .. Len(coeffs) |->
                          matsumreduce(
                              [idx \in 1 .. Len(coeffs[n]) |->
                                  [c \in 0 .. image_basis.cols - 1 |->
                                      coeffs[n][idx] * At(image_basis, idx - 1, c)]],
                              2)]
         IN  [isNone |-> FALSE, v |-> sorted_by_sum(group)]

\* _coset_reps that keeps only the first cycle of minimum weight
_coset_reps_first(bs, img_group, shortest) ==
    LET coset == sorted_by_sum([n \in 1 .. Len(img_group) |-> matsumreduce(<<img_group[n], bs>>, 2)])
    IN  IF shortest THEN <<coset[1]>> ELSE coset

\* coset = sorted([matsumreduce([img, bs]) for img in image_group]);
\* the cycles of the weight of coset[0] when shortest
_coset_reps(bs, img_group, shortest) ==
    LET coset == sorted_by_sum([n \in 1 .. Len(img_group) |-> matsumreduce(<<img_group[n], bs>>, 2)])
        mincoset == Weight(coset[1])
    IN  IF shortest THEN SelectSeq(coset, LAMBDA g : Weight(g) = mincoset) ELSE coset

(***************************************************************************)
(* kchainbasis, bkMatrix and interpret.  A hypergraph is the set of its    *)
(* hyperedges, each a set of vertices; a cell is an ascending tuple.       *)
(***************************************************************************)
LexLeq(s, u) ==
    \/ s = u
    \/ \E i \in 1 .. Len(s) : s[i] < u[i] /\ \A j \in 1 .. i - 1 : s[j] = u[j]

\* sorted(list(kchains)) for tuples of one length
RECURSIVE SortCells(_)
SortCells(T) ==
    IF T = {} THEN <<>>
    ELSE LET lo == CHOOSE x \in T : \A y \in T : LexLeq(x, y)
         IN  <<lo>> \o SortCells(T \ {lo})

kchainbasis(h, k) ==
    LET cells(e) ==
            IF Cardinality(e) = k + 1 THEN {Ascending(e)}
            ELSE IF Cardinality(e) > k + 1
                 THEN {Ascending(T) : T \in {U \in SUBSET e : Cardinality(U) = k + 1}}
                 ELSE {}
    IN  SortCells(UNION {cells(e) : e \in h})

\* face = cell[:idx] + cell[idx+1:]
Face(cell, idx) == SubSeq(cell, 1, idx - 1) \o SubSeq(cell, idx + 1, Len(cell))

InList(x, list) == \E i \in 1 .. Len(list) : list[i] = x

\* bk[km1basis.index(face), kbasis.index(cell)] = 1 for every face of every
\* cell; list.index raises ValueError for a face that is not in km1basis
bkMatrix(km1basis, kbasis) ==
    LET missing == \E c \in 1 .. Len(kbasis) : \E idx \in 1 .. Len(kbasis[c]) :
                       ~InList(Face(kbasis[c], idx), km1basis)
        bk == Mat(Len(km1basis), Len(kbasis),
                  [p \in Idx(Len(km1basis), Len(kbasis)) |->
                      IF \E idx \in 1 .. Len(kbasis[p[2] + 1]) :
                            Face(kbasis[p[2] + 1], idx) = km1basis[p[1] + 1]
                      THEN 1 ELSE 0])
    IN  IF missing THEN [kind |-> "raise", v |-> "ValueError"] ELSE [kind |-> "array", v |-> bk]

\* output.append([Ck[idx] for idx in range(len(vec)) if vec[idx] == 1]),
\* HyperNetXError for a vec whose length is not len(Ck)
interpret(Ck, arr) ==
    IF \E n \in 1 .. Len(arr) : Len(Ck) # Cardinality(DOMAIN arr[n])
    THEN [kind |-> "raise", v |-> "HyperNetXError"]
    ELSE [kind |-> "cells",
          v |-> [n \in 1 .. Len(arr) |->
                    LET vec == arr[n]
                        picked == Ascending({idx \in DOMAIN vec : vec[idx] = 1})
                    IN  [q \in 1 .. Len(picked) |-> Ck[picked[q] + 1]]]]

(***************************************************************************)
(* homology_basis and hypergraph_homology_basis, one operator per step.    *)
(* A returned value is [kind, v]: an array of rows ("array"), a list of    *)
(* lists of cells ("cells"), a dict of cosets ("dict"), a string ("str")   *)
(* or a raised exception ("raise").                                        *)
(***************************************************************************)
NoSmith == [L |-> eye(0), R |-> eye(0), S |-> eye(0), Linv |-> eye(0)]

HbLocals(fn, pc, h, k, C, bd1, bd2, shortest) ==
    [fn |-> fn, pc |-> pc, h |-> h, k |-> k, C |-> C, bd1 |-> bd1, bd2 |-> bd2,
     shortest |-> shortest, f1 |-> NoSmith, f2 |-> NoSmith,
     rank1 |-> 0, rank2 |-> 0, nullity1 |-> 0, betti1 |-> 0,
     ker1 |-> eye(0), im2 |-> eye(0), cokernel2 |-> eye(0), cokproj2 |-> eye(0),
     proj |-> eye(0), reps |-> <<>>, img_group |-> NoneList,
     result |-> [kind |-> "none", v |-> <<>>]]

HbNone == HbLocals("none", "none", {}, 0, NoneList, eye(0), eye(0), FALSE)

\* Python's truth value of a list or None
Truthy(list) == ~list.isNone /\ list.v # <<>>

\* L1, R1, S1, L1inv = smith_normal_form_mod2(bd[k])
hb_smith1(st) == [st EXCEPT !.f1 = smith_normal_form_mod2(st.bd1), !.pc = "smith2"]

\* L2, R2, S2, L2inv = smith_normal_form_mod2(bd[k+1])
hb_smith2(st) == [st EXCEPT !.f2 = smith_normal_form_mod2(st.bd2), !.pc = "ranks"]

\* lines 667-676: the ranks and the four slices
hb_ranks(st) ==
    LET rank1 == npsum(st.f1.S)
        rank2 == npsum(st.f2.S)
    IN  [st EXCEPT !.rank1 = rank1, !.rank2 = rank2,
                   !.nullity1 = st.f1.S.cols - rank1,
                   !.betti1 = st.f1.S.cols - rank1 - rank2,
                   !.ker1 = ColSlice(st.f1.R, rank1, st.f1.R.cols),
                   !.im2 = ColSlice(st.f2.Linv, 0, rank2),
                   !.cokernel2 = ColSlice(st.f2.Linv, rank2, st.f2.Linv.cols),
                   !.cokproj2 = RowSlice(st.f2.L, rank2, st.f2.L.rows),
                   !.pc = "proj"]

\* hb_proj without the projection away from the boundaries
hb_proj_kernel_only(st) == [st EXCEPT !.proj = transpose(st.ker1), !.pc = "rref"]

\* proj = matmulreduce([cokernel2, cokproj2, ker1]).transpose()
hb_proj(st) ==
    [st EXCEPT !.proj = transpose(matmulreduce(<<st.cokernel2, st.cokproj2, st.ker1>>, 2)),
               !.pc = "rref"]

\* _, proj, _ = reduced_row_echelon_form_mod2(proj)
hb_rref(st) == [st EXCEPT !.proj = reduced_row_echelon_form_mod2(st.proj).S, !.pc = "filter"]

\* hb_filter that keeps the zero rows
hb_filter_keep_all(st) ==
    [st EXCEPT !.reps = [q \in 1 .. st.proj.rows |-> Row(st.proj, q - 1)],
               !.pc = IF st.shortest THEN "image_group" ELSE "return"]

\* proj = np.array([row for row in proj if np.sum(row) > 0])
hb_filter(st) ==
    LET kept == Ascending({i \in 0 .. st.proj.rows - 1 : Weight(Row(st.proj, i)) > 0})
    IN  [st EXCEPT !.reps = [q \in 1 .. Len(kept) |-> Row(st.proj, kept[q])],
                   !.pc = IF st.shortest THEN "image_group" ELSE "return"]

\* if C: return interpret(C, proj) else: return proj
hb_return(st) ==
    [st EXCEPT !.result = IF Truthy(st.C) THEN interpret(st.C.v, st.reps)
                          ELSE [kind |-> "array", v |-> st.reps],
               !.pc = "returned"]

\* img_group = image_group(im2)
hb_image_group(st) ==
    [st EXCEPT !.img_group = image_group(st.im2),
               !.pc = IF Truthy(image_group(st.im2)) THEN "cosets" ELSE "return"]

\* coset[idx] = _coset_reps(bs, img_group), interpreted when C is given
hb_cosets(st) ==
    LET reps(idx) == _coset_reps(st.reps[idx + 1], st.img_group.v, TRUE)
        keys == 0 .. Len(st.reps) - 1
        raised == Truthy(st.C) /\ \E idx \in keys : interpret(st.C.v, reps(idx)).kind = "raise"
    IN  [st EXCEPT !.result =
                       IF raised THEN [kind |-> "raise", v |-> "HyperNetXError"]
                       ELSE [kind |-> "dict",
                             v |-> [idx \in keys |->
                                       IF Truthy(st.C) THEN interpret(st.C.v, reps(idx)).v
                                       ELSE reps(idx)]],
                   !.pc = "returned"]

MaxOf(T) == CHOOSE x \in T : \A y \in T : y <= x

\* max_edge_size = np.max([len(e) for e in h.edges()]);
\* if k+1 > max_edge_size or k < 1: return 'wrong dim'
hyper_guard(st) ==
    IF st.h = {}
    THEN [st EXCEPT !.result = [kind |-> "raise", v |-> "ValueError"], !.pc = "returned"]
    ELSE LET max_edge_size == MaxOf({Cardinality(e) : e \in st.h})
         IN  IF st.k + 1 > max_edge_size \/ st.k < 1
             THEN [st EXCEPT !.result = [kind |-> "str", v |-> "wrong dim"], !.pc = "returned"]
             ELSE [st EXCEPT !.pc = "build"]

\* C[i] = kchainbasis(h, i) for i in k-1 .. k+1; bd[i] = bkMatrix(C[i-1], C[i])
\* for i in k, k+1; return homology_basis(bd, k, C=C[k], shortest=shortest)
hyper_build(st) ==
    LET C == [i \in st.k - 1 .. st.k + 1 |-> kchainbasis(st.h, i)]
        bdk == bkMatrix(C[st.k - 1], C[st.k])
        bdk1 == bkMatrix(C[st.k], C[st.k + 1])
    IN  IF bdk.kind = "raise" \/ bdk1.kind = "raise"
        THEN [st EXCEPT !.result = [kind |-> "raise", v |-> "ValueError"], !.pc = "returned"]
        ELSE [st EXCEPT !.C = [isNone |-> FALSE, v |-> C[st.k]],
                        !.bd1 = bdk.v, !.bd2 = bdk1.v, !.pc = "smith1"]

(***************************************************************************)
(* The caller: it holds a matrix and makes one call on it.                 *)
(***************************************************************************)
Dims == {d \in (0 .. MaxDim) \X (0 .. MaxDim) : d[1] * d[2] <= MaxCells}

InputMatrices == UNION {Matrices(d[1], d[2]) : d \in Dims}

Idle(X) == [Locals("idle", X) EXCEPT !.pc = "idle"]

NoRet == [kind |-> "none"]

Init ==
    /\ M0 \in InputMatrices
    /\ sn = Idle(M0)
    /\ ret = NoRet
    /\ hb = HbNone

At_(fn, pc) == sn.fn = fn /\ sn.pc = pc

Step(st) == sn' = st /\ UNCHANGED <<M0, ret, hb>>

\* L, R, S, Linv = smith_normal_form_mod2(M)
CallSmith == At_("idle", "idle") /\ Step(SmithInit(sn.M))

SmithPivot == At_("smith", "pivot") /\ Step(smith_pivot(sn))

SmithSwapRows == At_("smith", "swap_rows") /\ Step(smith_swap_rows(sn))

SmithSwapCols == At_("smith", "swap_cols") /\ Step(smith_swap_cols(sn))

SmithRowIndices == At_("smith", "row_indices") /\ Step(smith_row_indices(sn))

SmithAddRow == At_("smith", "add_row") /\ sn.idxs # <<>> /\ Step(smith_add_row(sn))

SmithColumnIndices == At_("smith", "add_row") /\ sn.idxs = <<>> /\ Step(smith_column_indices(sn))

SmithAddCol == At_("smith", "add_col") /\ sn.idxs # <<>> /\ Step(smith_add_col(sn))

SmithNextS == At_("smith", "add_col") /\ sn.idxs = <<>> /\ Step(smith_next_s(sn))

SmithReturn ==
    /\ At_("smith", "done")
    /\ sn' = [sn EXCEPT !.pc = "returned"]
    /\ ret' = [kind |-> "smith", L |-> sn.L, R |-> sn.R, S |-> sn.S, Linv |-> sn.Linv,
               fresh |-> ~sn.SisM]
    /\ UNCHANGED <<M0, hb>>

\* L, S, Linv = reduced_row_echelon_form_mod2(M)
CallRref == At_("idle", "idle") /\ Step(RrefInit(sn.M))

RrefOuter == At_("rref", "outer") /\ Step(rref_outer(sn))

RrefInner == At_("rref", "inner") /\ Step(rref_inner(sn))

RrefSwapRows == At_("rref", "swap_rows") /\ Step(rref_swap_rows(sn))

RrefRowIndices == At_("rref", "row_indices") /\ Step(rref_row_indices(sn))

RrefAddRow == At_("rref", "add_row") /\ sn.idxs # <<>> /\ Step(rref_add_row(sn))

RrefNext == At_("rref", "add_row") /\ sn.idxs = <<>> /\ Step(rref_next(sn))

RrefReturn ==
    /\ At_("rref", "done")
    /\ sn' = [sn EXCEPT !.pc = "returned"]
    /\ ret' = [kind |-> "rref", L |-> sn.L, S |-> sn.S, Linv |-> sn.Linv,
               fresh |-> ~sn.SisM]
    /\ UNCHANGED <<M0, hb>>

\* a direct call of an elementary operation on the caller's matrix
Returned(fn, i, j, r) ==
    /\ sn' = [sn EXCEPT !.fn = fn, !.pc = "returned", !.M = r.arg, !.s1 = i, !.s2 = j]
    /\ ret' = [kind |-> "array", out |-> r.out, fresh |-> r.fresh]
    /\ UNCHANGED <<M0, hb>>

CallSwapRows ==
    /\ At_("idle", "idle")
    /\ \E i, j \in 0 .. sn.M.rows - 1 : Returned("swap_rows", i, j, swap_rows(i, j, <<sn.M>>)[1])

CallSwapColumns ==
    /\ At_("idle", "idle")
    /\ \E i, j \in 0 .. sn.M.cols - 1 :
          Returned("swap_columns", i, j, swap_columns(i, j, <<sn.M>>)[1])

CallAddToRow ==
    /\ At_("idle", "idle")
    /\ \E i, j \in 0 .. sn.M.rows - 1 :
          Returned("add_to_row", i, j, add_to_row(sn.M, i, j, 1, 1, 2))

CallAddToColumn ==
    /\ At_("idle", "idle")
    /\ \E i, j \in 0 .. sn.M.cols - 1 :
          Returned("add_to_column", i, j, add_to_column(sn.M, i, j, 1, 1, 2))

\* a direct call _get_next_pivot(M, s1) or _get_next_pivot(M, s1, s2)
CallGetNextPivot ==
    /\ At_("idle", "idle")
    /\ \E s1 \in 0 .. sn.M.rows, s2 \in {NoneArg} \cup {Some(c) : c \in 0 .. sn.M.cols} :
          /\ sn' = [sn EXCEPT !.fn = "_get_next_pivot", !.pc = "returned", !.s1 = s1]
          /\ ret' = [kind |-> "pivot", s2 |-> s2, pivot |-> _get_next_pivot(sn.M, s1, s2)]
          /\ UNCHANGED <<M0, hb>>

\* a direct call image_group(M)
CallImageGroup ==
    /\ At_("idle", "idle")
    /\ sn' = [sn EXCEPT !.fn = "image_group", !.pc = "returned"]
    /\ ret' = [kind |-> "image_group", v |-> image_group(sn.M)]
    /\ UNCHANGED <<M0, hb>>

Next ==
    \/ CallSmith \/ SmithPivot \/ SmithSwapRows \/ SmithSwapCols \/ SmithRowIndices
    \/ SmithAddRow \/ SmithColumnIndices \/ SmithAddCol \/ SmithNextS \/ SmithReturn
    \/ CallRref \/ RrefOuter \/ RrefInner \/ RrefSwapRows \/ RrefRowIndices
    \/ RrefAddRow \/ RrefNext \/ RrefReturn
    \/ CallSwapRows \/ CallSwapColumns \/ CallAddToRow \/ CallAddToColumn
    \/ CallGetNextPivot \/ CallImageGroup

Spec == Init /\ [][Next]_vars

(***************************************************************************)
(* The caller of the homology functions: it calls homology_basis on a pair *)
(* of boundary matrices with bd[k]*bd[k+1] = 0, or                         *)
(* hypergraph_homology_basis on a hypergraph.                              *)
(***************************************************************************)
HomDims == {d \in (0 .. HomDim) \X (0 .. HomDim) \X (0 .. HomDim) :
               d[1] * d[2] + d[2] * d[3] <= HomCells}

Zeros(m, n) == Mat(m, n, [p \in Idx(m, n) |-> 0])

\* the b x c matrices Y with X*Y = 0 (mod 2)
Annihilated(X, c) == {Y \in Matrices(X.cols, c) : modmult(X, Y, 2) = Zeros(X.rows, c)}

ChainPairs ==
    UNION {UNION {{<<X, Y>> : Y \in Annihilated(X, d[3])} : X \in Matrices(d[1], d[2])}
           : d \in HomDims}

Hyperedges == SUBSET (1 .. MaxVertices) \ {{}}

Hypergraphs == {h \in SUBSET Hyperedges : Cardinality(h) <= MaxEdges}

HyperCall(h, k, shortest) ==
    HbLocals("hypergraph_homology_basis", "guard", h, k, NoneList, eye(0), eye(0), shortest)

\* bd[k] and bd[k+1] as lines 727-732 build them for a hypergraph h
BoundaryPair(h, k) ==
    LET st == hyper_build(HyperCall(h, k, FALSE))
    IN  <<st.bd1, st.bd2>>

HypergraphPairs ==
    {BoundaryPair(c[1], c[2]) :
        c \in {d \in Hypergraphs \X (1 .. MaxVertices) :
                  hyper_guard(HyperCall(d[1], d[2], FALSE)).pc = "build"}}

HomInit ==
    /\ M0 = eye(0)
    /\ sn = Idle(eye(0))
    /\ ret = NoRet
    /\ \/ \E bd \in ChainPairs \cup HypergraphPairs, shortest \in BOOLEAN :
             hb = HbLocals("homology_basis", "smith1", {}, 1, NoneList, bd[1], bd[2], shortest)
       \/ \E h \in Hypergraphs, k \in 0 .. MaxVertices, shortest \in BOOLEAN :
             hb = HyperCall(h, k, shortest)

HbAt(pc) == hb.pc = pc

HbStep(st) == hb' = st /\ UNCHANGED <<M0, sn, ret>>

HyperGuard == HbAt("guard") /\ HbStep(hyper_guard(hb))

HyperBuild == HbAt("build") /\ HbStep(hyper_build(hb))

HbSmith1 == HbAt("smith1") /\ HbStep(hb_smith1(hb))

HbSmith2 == HbAt("smith2") /\ HbStep(hb_smith2(hb))

HbRanks == HbAt("ranks") /\ HbStep(hb_ranks(hb))

HbProj == HbAt("proj") /\ HbStep(hb_proj(hb))

HbRref == HbAt("rref") /\ HbStep(hb_rref(hb))

HbFilter == HbAt("filter") /\ HbStep(hb_filter(hb))

HbImageGroup == HbAt("image_group") /\ HbStep(hb_image_group(hb))

HbCosets == HbAt("cosets") /\ HbStep(hb_cosets(hb))

HbReturn == HbAt("return") /\ HbStep(hb_return(hb))

HomNext ==
    \/ HyperGuard \/ HyperBuild
    \/ HbSmith1 \/ HbSmith2 \/ HbRanks \/ HbProj \/ HbRref \/ HbFilter
    \/ HbImageGroup \/ HbCosets \/ HbReturn

SpecHom == HomInit /\ [][HomNext]_vars

(***************************************************************************)
(* Linear algebra over GF(2) computed from the definitions, for the        *)
(* statements below.                                                       *)
(***************************************************************************)
\* the mod-2 sum of the rows of X whose index is in T
XorRows(X, T) ==
    [c \in 0 .. X.cols - 1 |->
        SumTo([i \in 0 .. X.rows - 1 |-> IF i \in T THEN At(X, i, c) ELSE 0], X.rows - 1) % 2]

RowSpace(X) == {XorRows(X, T) : T \in SUBSET (0 .. X.rows - 1)}

ColSpace(X) == RowSpace(transpose(X))

\* the GF(2) rank: the row space has 2^rank elements
Rank(X) == CHOOSE k \in 0 .. X.rows : 2 ^ k = Cardinality(RowSpace(X))

ZeroRow(X, i) == \A c \in 0 .. X.cols - 1 : At(X, i, c) = 0

\* the column of the leading 1 of a nonzero row
Lead(X, i) == CHOOSE c \in 0 .. X.cols - 1 : At(X, i, c) = 1 /\ \A d \in 0 .. c - 1 : At(X, i, d) = 0

(***************************************************************************)
(* C1.  For every 0/1 matrix M of shape m x n (m, n >= 1) the Smith solver *)
(* keeps L*M*R = S and Linv*L = L*Linv = Identity_m (mod 2) after every    *)
(* elementary row or column step of its loop, and returns L, R, S, Linv    *)
(* that satisfy them.                                                      *)
(***************************************************************************)
SmithEquations(X, L, R, S, Linv) ==
    /\ modmult(modmult(L, X, 2), R, 2) = S
    /\ modmult(Linv, L, 2) = eye(X.rows)
    /\ modmult(L, Linv, 2) = eye(X.rows)

C1_SmithFactorization ==
    (sn.fn = "smith" /\ M0.rows >= 1 /\ M0.cols >= 1) =>
        /\ SmithEquations(M0, sn.L, sn.R, sn.S, sn.Linv)
        /\ ret.kind = "smith" => SmithEquations(M0, ret.L, ret.R, ret.S, ret.Linv)

\* a call has returned after row swaps or additions and column swaps or additions
C1_Witness ==
    /\ ret.kind = "smith"
    /\ M0.rows >= 3 /\ M0.cols >= 3
    /\ ret.L # eye(M0.rows) /\ ret.R # eye(M0.cols)
    /\ ret.Linv # ret.L
    /\ npsum(ret.S) >= 2

(***************************************************************************)
(* C2.  For every 0/1 matrix M the echelon solver returns L, S, Linv with  *)
(* L*M = S, M = Linv*S and Linv*L = L*Linv = Identity_m (mod 2).           *)
(***************************************************************************)
C2_RrefFactorization ==
    ret.kind = "rref" =>
        /\ modmult(ret.L, M0, 2) = ret.S
        /\ modmult(ret.Linv, ret.S, 2) = M0
        /\ modmult(ret.Linv, ret.L, 2) = eye(M0.rows)
        /\ modmult(ret.L, ret.Linv, 2) = eye(M0.rows)

\* a call has returned after a row swap and row additions
C2_Witness ==
    /\ ret.kind = "rref"
    /\ M0.rows >= 3
    /\ ret.S # M0
    /\ ret.Linv # ret.L
    /\ \E i \in 0 .. M0.rows - 1 : At(ret.L, i, i) = 0

(***************************************************************************)
(* C3.  The matrix S the echelon solver returns is in reduced row echelon  *)
(* form: each nonzero row's leading 1 is strictly right of the leading 1   *)
(* of the row above, a column with a leading 1 is zero in every other row, *)
(* the zero rows come last, and the number of nonzero rows is the GF(2)    *)
(* rank of M.                                                              *)
(***************************************************************************)
IsReducedEchelon(S) ==
    /\ \A i \in 1 .. S.rows - 1 :
          ~ZeroRow(S, i) => (~ZeroRow(S, i - 1) /\ Lead(S, i - 1) < Lead(S, i))
    /\ \A i \in 0 .. S.rows - 1 :
          ~ZeroRow(S, i) => \A r \in 0 .. S.rows - 1 : r # i => At(S, r, Lead(S, i)) = 0
    /\ \A i, j \in 0 .. S.rows - 1 : (i < j /\ ZeroRow(S, i)) => ZeroRow(S, j)

C3_RrefIsReducedEchelon ==
    ret.kind = "rref" =>
        /\ IsReducedEchelon(ret.S)
        /\ Cardinality({i \in 0 .. ret.S.rows - 1 : ~ZeroRow(ret.S, i)}) = Rank(M0)

\* a returned S whose second pivot is right of the diagonal, with an entry
\* cleared above it, from an input that was not in echelon form
C3_Witness ==
    /\ ret.kind = "rref"
    /\ ~IsReducedEchelon(M0)
    /\ M0.rows >= 2
    /\ ~ZeroRow(ret.S, 1) /\ Lead(ret.S, 1) > 1
    /\ At(M0, 0, Lead(ret.S, 1)) = 1

(***************************************************************************)
(* C4.  _get_next_pivot(M, rowStart, colStart) returns the nonzero         *)
(* position of M[rowStart:, colStart:] first in column-major order, and    *)
(* None exactly when that submatrix is zero; an omitted colStart is        *)
(* rowStart, and an explicit colStart = 0 is column 0.                     *)
(***************************************************************************)
FirstNonzero(X, rowStart, colStart) ==
    LET nz == {p \in (rowStart .. X.rows - 1) \X (colStart .. X.cols - 1) : X.a[p] # 0}
    IN  IF nz = {} THEN NoPivot
        ELSE LET p == CHOOSE p \in nz :
                         \A q \in nz : p[2] < q[2] \/ (p[2] = q[2] /\ p[1] <= q[1])
             IN  [isNone |-> FALSE, r |-> p[1], c |-> p[2]]

C4_PivotIsFirstOfSubmatrix ==
    ret.kind = "pivot" =>
        ret.pivot = FirstNonzero(M0, sn.s1, IF ret.s2.isNone THEN sn.s1 ELSE ret.s2.v)

(***************************************************************************)
(* C10.  The solvers and the elementary operations never modify the matrix *)
(* passed to them: at every step the caller's matrix holds the entries it  *)
(* held before the call, and what is returned lives in buffers of its own. *)
(***************************************************************************)
C10_CallerMatrixUnchanged ==
    /\ sn.M = M0
    /\ ~sn.SisM
    /\ ret.kind \in {"smith", "rref", "array"} => ret.fresh

\* an elementary operation has returned a matrix that differs from the caller's
C10_Witness ==
    /\ ret.kind = "array"
    /\ sn.fn \in {"swap_rows", "swap_columns", "add_to_row", "add_to_column"}
    /\ ret.out # M0

(***************************************************************************)
(* C5.  For boundary matrices bd[k] (a x b) and bd[k+1] (b x c) with       *)
(* bd[k]*bd[k+1] = 0, homology_basis without a chain basis and with        *)
(* shortest=False returns exactly (b - rank bd[k]) - rank bd[k+1] rows,    *)
(* each a 0/1 vector of length b: one row for the hollow triangle and none *)
(* for the filled triangle at k = 1.                                       *)
(***************************************************************************)
HollowTriangle == {{1, 2}, {2, 3}, {1, 3}}

FilledTriangle == HollowTriangle \cup {{1, 2, 3}}

CalledOn(pair) == hb.bd1 = pair[1] /\ hb.bd2 = pair[2]

PlainReturn == hb.fn = "homology_basis" /\ hb.pc = "returned" /\ ~hb.shortest

C5_BettiManyRows ==
    PlainReturn =>
        /\ hb.result.kind = "array"
        /\ Len(hb.result.v) = (hb.bd1.cols - Rank(hb.bd1)) - Rank(hb.bd2)
        /\ \A q \in 1 .. Len(hb.result.v) : hb.result.v[q] \in [0 .. hb.bd1.cols - 1 -> {0, 1}]
        /\ CalledOn(BoundaryPair(HollowTriangle, 1)) => Len(hb.result.v) = 1
        /\ CalledOn(BoundaryPair(FilledTriangle, 1)) => Len(hb.result.v) = 0

\* the call on the hollow triangle's boundary matrices has returned its row
C5_Witness ==
    /\ PlainReturn
    /\ CalledOn(BoundaryPair(HollowTriangle, 1))
    /\ hb.bd1.rows = 3 /\ hb.bd1.cols = 3 /\ hb.bd2.cols = 0
    /\ Len(hb.result.v) = 1

(***************************************************************************)
(* C6.  Every row homology_basis returns is a cycle (bd[k]*g = 0 mod 2),   *)
(* and the rows are linearly independent modulo boundaries: the mod-2 sum  *)
(* of a non-empty subset of them is never in the column space of bd[k+1].  *)
(***************************************************************************)
\* bd * g (mod 2) for a vector g
Apply(X, g) ==
    [i \in 0 .. X.rows - 1 |->
        SumTo([c \in 0 .. X.cols - 1 |-> At(X, i, c) * g[c]], X.cols - 1) % 2]

\* the mod-2 sum of the vectors of list whose position is in T
XorVecs(list, T, n) ==
    [c \in 0 .. n - 1 |->
        SumTo([q \in 0 .. Len(list) - 1 |-> IF q + 1 \in T THEN list[q + 1][c] ELSE 0],
              Len(list) - 1) % 2]

C6_RowsAreIndependentCycles ==
    (hb.fn = "homology_basis" /\ hb.pc = "returned" /\ hb.result.kind = "array") =>
        LET rows == hb.result.v
        IN  /\ \A q \in 1 .. Len(rows) :
                  Apply(hb.bd1, rows[q]) = [i \in 0 .. hb.bd1.rows - 1 |-> 0]
            /\ \A T \in SUBSET (1 .. Len(rows)) \ {{}} :
                  XorVecs(rows, T, hb.bd1.cols) \notin ColSpace(hb.bd2)

\* two rows were returned although bd[k+1] has boundaries and bd[k] is not zero
C6_Witness ==
    /\ PlainReturn
    /\ Len(hb.result.v) >= 2
    /\ Rank(hb.bd2) >= 1
    /\ Rank(hb.bd1) >= 1

(***************************************************************************)
(* C7.  With shortest=True and rank bd[k+1] >= 1 the result maps each i in *)
(* 0..betti-1 to a non-empty list that is exactly the set of the elements  *)
(* of minimum Hamming weight of the coset rep_i + colspace(bd[k+1]); with  *)
(* rank bd[k+1] = 0 the plain representatives are returned.                *)
(***************************************************************************)
Coset(rep, X) == {[c \in DOMAIN rep |-> (rep[c] + b[c]) % 2] : b \in ColSpace(X)}

Lightest(T) == {g \in T : \A x \in T : Weight(g) <= Weight(x)}

ListSet(list) == {list[q] : q \in 1 .. Len(list)}

ShortestReturn == hb.fn = "homology_basis" /\ hb.pc = "returned" /\ hb.shortest

C8_ImageGroupIsTheColumnSpace ==
    (ret.kind = "image_group" /\ M0.cols >= 1 /\ Rank(M0) = M0.cols) =>
        /\ ~ret.v.isNone
        /\ LET list == ret.v.v
           IN  /\ Len(list) = 2 ^ M0.cols
               /\ Cardinality(ListSet(list)) = Len(list)
               /\ [c \in 0 .. M0.rows - 1 |-> 0] \in ListSet(list)
               /\ ListSet(list) = ColSpace(M0)
               /\ \A q \in 1 .. Len(list) - 1 : Weight(list[q]) <= Weight(list[q + 1])

\* the group of three independent columns has been enumerated
C8_Witness ==
    /\ ret.kind = "image_group"
    /\ M0.cols = 3 /\ Rank(M0) = 3
    /\ Len(ret.v.v) = 8

(***************************************************************************)
(* C9.  hypergraph_homology_basis(h, k) with k < 1 or k+1 greater than the *)
(* largest hyperedge fails with an InvalidDimension error and returns no   *)
(* value; for every other k it returns a generator list or a coset map.    *)
(***************************************************************************)
InvalidDimension(h, k) == k < 1 \/ k + 1 > MaxOf({Cardinality(e) : e \in h})

C9_InvalidDimensionIsAnError ==
    (hb.fn = "hypergraph_homology_basis" /\ hb.pc = "returned" /\ hb.h # {}) =>
        IF InvalidDimension(hb.h, hb.k)
        THEN hb.result = [kind |-> "raise", v |-> "InvalidDimension"]
        ELSE hb.result.kind \in {"cells", "dict"}

(***************************************************************************)
(* C11.  In smith_normal_form_mod2, at the start of every loop iteration s *)
(* the working matrix has S[0:s,0:s] = Identity, S[0:s,s:] = 0 and         *)
(* S[s:,0:s] = 0.  On return S is diagonal with r leading 1s followed only *)
(* by zeros, where r is the number of iterations completed before the      *)
(* pivot search returned None (or min(m,n)); r is the GF(2) rank of M and  *)
(* the sum of all entries of S; a matrix that is all zero, or has zero     *)
(* rows or zero columns, gives r = 0.                                      *)
(***************************************************************************)
\* S[0:s,0:s] = Identity, S[0:s,s:] = 0, S[s:,0:s] = 0
SmithBlocks(S, s) ==
    \A i \in 0 .. S.rows - 1 : \A j \in 0 .. S.cols - 1 :
        (i < s \/ j < s) => At(S, i, j) = (IF i = j THEN 1 ELSE 0)

\* S is diagonal with r leading 1s followed only by zeros
DiagonalOfRank(S, r) ==
    \A i \in 0 .. S.rows - 1 : \A j \in 0 .. S.cols - 1 :
        At(S, i, j) = (IF i = j /\ i < r THEN 1 ELSE 0)

AllZero(X) == \A i \in 0 .. X.rows - 1 : \A j \in 0 .. X.cols - 1 : At(X, i, j) = 0

C11_SmithLoopInvariantAndRank ==
    sn.fn = "smith" =>
        /\ sn.pc = "pivot" => sn.s <= Min(M0.rows, M0.cols) /\ SmithBlocks(sn.S, sn.s)
        /\ sn.pc \in {"done", "returned"} =>
               /\ DiagonalOfRank(sn.S, sn.s)
               /\ sn.s = Rank(M0)
               /\ sn.s = npsum(sn.S)
               /\ (AllZero(M0) \/ M0.rows = 0 \/ M0.cols = 0) => sn.s = 0
        /\ ret.kind = "smith" => DiagonalOfRank(ret.S, sn.s) /\ npsum(ret.S) = Rank(M0)

\* a call has returned after two full iterations, stopped by a pivot search that
\* found nothing, having made row and column operations on the way
C11_Witness ==
    /\ ret.kind = "smith"
    /\ sn.s = 2 /\ sn.s < Min(M0.rows, M0.cols)
    /\ ret.L # eye(M0.rows) /\ ret.R # eye(M0.cols)
    /\ npsum(M0) > npsum(ret.S)

=============================================================================
